---- MODULE Spec2Model ----
(***************************************************************************)
(* Terminal session gateway of CoreSecFrame's web front end                *)
(* (src/static/js/app.js): the TerminalManager registry of xterm.js        *)
(* emulators, the Socket.IO bridge and the Vue methods that start and      *)
(* close terminal sessions.                                                *)
(*                                                                         *)
(* JavaScript runs every handler to completion on one event loop.  A       *)
(* handler is one action, except TerminalManager.createTerminal, whose     *)
(* statements are taken in program order (pc) with nothing else            *)
(* interleaved, so that the order of its effects is observable.            *)
(*                                                                         *)
(* Spec is the gateway under user and backend events; SpecFault adds an    *)
(* emulator whose dispose() throws; SpecRequest follows installTool and    *)
(* removeTool through their POST; SpecPoll is fetchData under overlapping  *)
(* calls; SpecNotify is the notification queue with its timers; SpecOrder  *)
(* is sessions under bursts of input and output.                           *)
(***************************************************************************)
EXTENDS Integers, Sequences, FiniteSets, TLC

\* ---------------------------------------------------------------- bounds
MaxEmulators == 2
MaxWritten == 1
MaxPolls == 2
MaxBurst == 2
MaxNotifications == 3

\* ------------------------------------------------------- program constants
\* line 326: the delay of the removal timer, in milliseconds
Ttl == 3000

\* ------------------------------------------------------------ input sets
ToolNames == {"nmap"}
Outputs == {"scan started\n", "done\n"}
Keys == {"x"}
Dims == {[rows |-> 24, cols |-> 80]}
StrayId == "tool_nmap_123"
\* The readings Date.now() may give, in milliseconds.
Timestamps == {1000, 1001}
\* The bodies the three endpoints answer with.
ToolLists == {<<[name |-> "nmap", installed |-> FALSE]>>,
              <<[name |-> "nmap", installed |-> TRUE]>>}
CategoryLists == {<<"scanner">>}
\* The messages of terminal_error events.
Errors == {"permission denied", "tool not found"}
\* The instants, in milliseconds since the page loaded, at which the model
\* looks at the page.
Instants == {0, 2999, 3000, 3001, 5999}
SessionLists == {<<[id |-> StrayId, active |-> TRUE]>>,
                 <<[id |-> StrayId, active |-> FALSE]>>}

VARIABLES
    terminals,        \* TerminalManager.terminals: sessionId -> entry
    emulators,        \* every xterm Terminal constructed so far
    observers,        \* every ResizeObserver constructed so far
    activeTerminals,  \* app data: the active-terminal list
    executionMode,    \* app data: 'guided' | 'direct'
    outbox,           \* socket.emit calls of the running task, in order
    posts,            \* POST /api/tool/{name} requests in flight
    clock,            \* Date.now() as last read
    pc,               \* position of the deferred ($nextTick) callback
    task,             \* the handler the event loop dispatched last
    tools,            \* app data: snapshot of /api/tools
    categories,       \* app data: snapshot of /api/categories
    sessions,         \* app data: snapshot of /api/sessions
    loading,          \* app data
    polls,            \* fetchData calls in flight, each awaiting one fetch
    notifications,    \* app data: the notification queue
    notificationId,   \* app data: the id counter
    timers,           \* setTimeout callbacks pending, each with its due time
    time              \* milliseconds since the page loaded

\* The snapshot view and the notification sink.
view == <<tools, categories, sessions, loading, polls>>
sink == <<notifications, notificationId, timers, time>>

vars == <<terminals, emulators, observers, activeTerminals, executionMode,
          outbox, posts, clock, pc, task, view, sink>>

\* --------------------------------------------------------------- helpers

\* `${purpose}_${toolName}_${Date.now()}`
SessionIdOf(purpose, toolName, now) ==
    purpose \o "_" \o toolName \o "_" \o ToString(now)

\* `terminal-${sessionId}`
ContainerIdOf(sessionId) == "terminal-" \o sessionId

\* The session ids an inbound event may carry: the backend may name any id.
\* Every id the client has never used behaves like StrayId.
InboundIds ==
    {emulators[i].sessionId : i \in 1..Len(emulators)}
        \cup {activeTerminals[j].sessionId : j \in 1..Len(activeTerminals)}
        \cup {StrayId}

\* The event loop takes its next task.  The socket writes emitted packets to
\* its transport in order before the loop is free again.
Ready == pc.at = "idle" /\ outbox = << >>

Idle == [at |-> "idle", op |-> "", sessionId |-> "", toolName |-> "",
         terminal |-> 0, resizeObserver |-> 0]

Task(op, sessionId, terminalData, threw) ==
    [op |-> op, sessionId |-> sessionId, terminalData |-> terminalData,
     threw |-> threw]

\* The number of chunks the emulators hold, which MaxWritten bounds.
RECURSIVE WrittenTotal(_)
WrittenTotal(list) ==
    IF list = << >> THEN 0
    ELSE Len(list[1].written) + WrittenTotal(Tail(list))

\* activeTerminals.findIndex(t => t.sessionId === sessionId); 0 for -1
FindIndex(list, sessionId) ==
    IF \E i \in 1..Len(list) : list[i].sessionId = sessionId
    THEN CHOOSE i \in 1..Len(list) :
            /\ list[i].sessionId = sessionId
            /\ \A j \in 1..(i - 1) : list[j].sessionId # sessionId
    ELSE 0

\* activeTerminals.splice(index, 1)
Splice(list, index) ==
    SubSeq(list, 1, index - 1) \o SubSeq(list, index + 1, Len(list))

\* document.getElementById(containerId): the element is rendered by the page
\* template from the active-terminal list; the template is not part of the
\* sources, so an entry in the list may or may not have its element.
ContainerResolves(containerId) ==
    IF \E i \in 1..Len(activeTerminals) :
          ContainerIdOf(activeTerminals[i].sessionId) = containerId
    THEN {TRUE, FALSE}
    ELSE {FALSE}

\* ------------------------------------------------------------------ Init

Init ==
    /\ terminals = << >>
    /\ emulators = << >>
    /\ observers = << >>
    /\ activeTerminals = << >>
    /\ executionMode = "guided"
    /\ outbox = << >>
    /\ posts = << >>
    /\ clock = 1000
    /\ pc = Idle
    /\ task = Task("created", "", FALSE, FALSE)
    /\ tools = << >>
    /\ categories = << >>
    /\ sessions = << >>
    /\ loading = TRUE
    /\ polls = << >>
    /\ notifications = << >>
    /\ notificationId = 0
    /\ timers = << >>
    /\ time = 0

\* ----------------------------------------------------- TerminalManager

\* createTerminal with the creation event sent before the entry is stored.
CreateTerminalNextAnnounceFirst(at) ==
    CASE at = "mount" -> "announce"
      [] at = "announce" -> "register"
      [] at = "register" -> "resume"

\* The statement order of createTerminal after the emulator is constructed.
CreateTerminalNext(at) ==
    CASE at = "mount" -> "register"
      [] at = "register" -> "announce"
      [] at = "announce" -> "resume"

\* lines 12-27: new Terminal, addons loaded
CreateTerminalConstruct ==
    /\ pc.at = "nextTick"
    /\ emulators' = Append(emulators,
            [sessionId |-> pc.sessionId, opened |-> FALSE,
             disposed |-> FALSE, written |-> << >>])
    /\ pc' = [pc EXCEPT !.at = "mount", !.terminal = Len(emulators) + 1]
    /\ UNCHANGED <<terminals, observers, activeTerminals, executionMode,
                   view, sink, outbox, posts, clock, task>>

\* createTerminal that swallows the missing container and returns normally.
CreateTerminalMountSwallows ==
    /\ pc.at = "mount"
    /\ \E found \in ContainerResolves(ContainerIdOf(pc.sessionId)) :
          IF found
          THEN /\ emulators' = [emulators EXCEPT ![pc.terminal].opened = TRUE]
               /\ observers' = Append(observers,
                      [sessionId |-> pc.sessionId, connected |-> TRUE])
               /\ pc' = [pc EXCEPT !.at = CreateTerminalNext("mount"),
                                   !.resizeObserver = Len(observers) + 1]
          ELSE /\ pc' = [pc EXCEPT !.at = "resume"]
               /\ UNCHANGED <<emulators, observers>>
    /\ UNCHANGED <<terminals, activeTerminals, executionMode, view, sink,
                   outbox, posts, clock, task>>

\* lines 30-54: resolve the container or throw; open, fit, onData, observer
CreateTerminalMount ==
    /\ pc.at = "mount"
    /\ \E found \in ContainerResolves(ContainerIdOf(pc.sessionId)) :
          IF found
          THEN /\ emulators' = [emulators EXCEPT ![pc.terminal].opened = TRUE]
               /\ observers' = Append(observers,
                      [sessionId |-> pc.sessionId, connected |-> TRUE])
               /\ pc' = [pc EXCEPT !.at = CreateTerminalNext("mount"),
                                   !.resizeObserver = Len(observers) + 1]
               /\ UNCHANGED task
          ELSE /\ pc' = Idle
               /\ task' = [task EXCEPT !.threw = TRUE]
               /\ UNCHANGED <<emulators, observers>>
    /\ UNCHANGED <<terminals, activeTerminals, executionMode, view, sink,
                   outbox, posts, clock>>

\* lines 57-61: this.terminals.set(sessionId, {terminal, fitAddon, resizeObserver})
CreateTerminalRegister ==
    /\ pc.at = "register"
    /\ terminals' =
          [s \in DOMAIN terminals \cup {pc.sessionId} |->
              IF s = pc.sessionId
              THEN [terminal |-> pc.terminal,
                    resizeObserver |-> pc.resizeObserver]
              ELSE terminals[s]]
    /\ pc' = [pc EXCEPT !.at = CreateTerminalNext("register")]
    /\ UNCHANGED <<emulators, observers, activeTerminals, executionMode,
                   view, sink, outbox, posts, clock, task>>

\* line 64: this.socket.emit('terminal_create', { session_id })
CreateTerminalAnnounce ==
    /\ pc.at = "announce"
    /\ outbox' = Append(outbox,
          [event |-> "terminal_create", session_id |-> pc.sessionId])
    /\ pc' = [pc EXCEPT !.at = CreateTerminalNext("announce")]
    /\ UNCHANGED <<terminals, emulators, observers, activeTerminals,
                   executionMode, view, sink, posts, clock, task>>

\* closeTerminal with the emit outside the `if (terminalData)` block.
TM_closeTerminalAlwaysEmits(sessionId) ==
    /\ outbox' = Append(outbox,
          [event |-> "terminal_close", session_id |-> sessionId])
    /\ IF sessionId \in DOMAIN terminals
       THEN LET terminalData == terminals[sessionId] IN
            /\ emulators' =
                  [emulators EXCEPT ![terminalData.terminal].disposed = TRUE,
                                    ![terminalData.terminal].written = << >>]
            /\ observers' =
                  [observers EXCEPT
                     ![terminalData.resizeObserver].connected = FALSE]
            /\ terminals' =
                  [s \in DOMAIN terminals \ {sessionId} |-> terminals[s]]
       ELSE UNCHANGED <<terminals, emulators, observers>>

\* closeTerminal without `this.terminals.delete(sessionId)`.
TM_closeTerminalKeepsEntry(sessionId) ==
    IF sessionId \in DOMAIN terminals
    THEN LET terminalData == terminals[sessionId] IN
         /\ emulators' =
               [emulators EXCEPT ![terminalData.terminal].disposed = TRUE,
                                 ![terminalData.terminal].written = << >>]
         /\ observers' =
               [observers EXCEPT
                  ![terminalData.resizeObserver].connected = FALSE]
         /\ outbox' = Append(outbox,
               [event |-> "terminal_close", session_id |-> sessionId])
         /\ UNCHANGED terminals
    ELSE UNCHANGED <<terminals, emulators, observers, outbox>>

\* TerminalManager.closeTerminal(sessionId), the emulator's disposal returning.
\* A disposed emulator has released its buffer.
TM_closeTerminal(sessionId) ==
    IF sessionId \in DOMAIN terminals
    THEN LET terminalData == terminals[sessionId] IN
         /\ emulators' =
               [emulators EXCEPT ![terminalData.terminal].disposed = TRUE,
                                 ![terminalData.terminal].written = << >>]
         /\ observers' =
               [observers EXCEPT
                  ![terminalData.resizeObserver].connected = FALSE]
         /\ terminals' =
               [s \in DOMAIN terminals \ {sessionId} |-> terminals[s]]
         /\ outbox' = Append(outbox,
               [event |-> "terminal_close", session_id |-> sessionId])
    ELSE UNCHANGED <<terminals, emulators, observers, outbox>>

\* TerminalManager.closeTerminal(sessionId), terminal.dispose() throwing: the
\* statements after it do not run, and the library leaves the emulator
\* disposed or not.
TM_closeTerminalThrows(sessionId) ==
    /\ sessionId \in DOMAIN terminals
    /\ \E disposed \in BOOLEAN :
          emulators' =
             [emulators EXCEPT ![terminals[sessionId].terminal].disposed =
                 disposed]
    /\ UNCHANGED <<terminals, observers, outbox>>

\* write that hands the data to every live emulator.
TM_writeBroadcast(sessionId, data) ==
    IF sessionId \in DOMAIN terminals
    THEN /\ emulators' =
               [e \in 1..Len(emulators) |->
                   IF emulators[e].opened /\ ~emulators[e].disposed
                   THEN [emulators[e] EXCEPT !.written = Append(@, data)]
                   ELSE emulators[e]]
         /\ UNCHANGED <<terminals, observers, outbox>>
    ELSE UNCHANGED <<terminals, emulators, observers, outbox>>

\* write that puts the data in front of what the emulator was given before.
TM_writePrepends(sessionId, data) ==
    IF sessionId \in DOMAIN terminals
    THEN /\ emulators' =
               [emulators EXCEPT ![terminals[sessionId].terminal].written =
                   <<data>> \o @]
         /\ UNCHANGED <<terminals, observers, outbox>>
    ELSE UNCHANGED <<terminals, emulators, observers, outbox>>

\* TerminalManager.write(sessionId, data)
TM_write(sessionId, data) ==
    IF sessionId \in DOMAIN terminals
    THEN /\ emulators' =
               [emulators EXCEPT ![terminals[sessionId].terminal].written =
                   Append(@, data)]
         /\ UNCHANGED <<terminals, observers, outbox>>
    ELSE UNCHANGED <<terminals, emulators, observers, outbox>>

\* ------------------------------------------------------------ Vue methods

\* The part the three starters share: push the list entry, defer the rest.
StartSession(op, purpose, title, toolName, now) ==
    /\ Ready
    /\ Len(emulators) < MaxEmulators
    /\ clock' = now
    /\ activeTerminals' = Append(activeTerminals,
          [sessionId |-> SessionIdOf(purpose, toolName, now),
           title |-> title, minimized |-> FALSE])
    /\ pc' = [Idle EXCEPT !.at = "nextTick", !.op = op,
                          !.sessionId = SessionIdOf(purpose, toolName, now),
                          !.toolName = toolName]
    /\ task' = Task(op, SessionIdOf(purpose, toolName, now), FALSE, FALSE)
    /\ UNCHANGED <<terminals, emulators, observers, executionMode, view,
                   sink, outbox, posts>>

executeTool(toolName, now) ==
    StartSession("executeTool", "tool",
                 toolName \o " - " \o executionMode \o " mode", toolName, now)

installTool(toolName, now) ==
    StartSession("installTool", "install",
                 "Installing " \o toolName, toolName, now)

removeTool(toolName, now) ==
    StartSession("removeTool", "remove",
                 "Removing " \o toolName, toolName, now)

\* The deferred callback after `await createTerminal(...)`.
Resume ==
    /\ pc.at = "resume"
    /\ IF pc.op = "executeTool"
       THEN /\ outbox' = Append(outbox,
                   [event |-> "execute_tool", tool |-> pc.toolName,
                    mode |-> executionMode])
            /\ UNCHANGED posts
       ELSE /\ posts' = Append(posts,
                   [toolName |-> pc.toolName,
                    action |-> IF pc.op = "installTool"
                               THEN "install" ELSE "remove"])
            /\ UNCHANGED outbox
    /\ pc' = Idle
    /\ UNCHANGED <<terminals, emulators, observers, activeTerminals,
                   executionMode, view, sink, clock, task>>

\* closeTerminal without `if (index !== -1)`: splice(-1, 1) drops the last
\* entry of the list when no entry has the id.
closeTerminalSplicesBlindly(sessionId) ==
    /\ TM_closeTerminal(sessionId)
    /\ LET index == FindIndex(activeTerminals, sessionId) IN
          activeTerminals' =
             IF index # 0
             THEN Splice(activeTerminals, index)
             ELSE IF activeTerminals = << >>
                  THEN activeTerminals
                  ELSE Splice(activeTerminals, Len(activeTerminals))

\* closeTerminal(sessionId) of the app
closeTerminal(sessionId) ==
    /\ TM_closeTerminal(sessionId)
    /\ LET index == FindIndex(activeTerminals, sessionId) IN
          activeTerminals' = IF index # 0
                             THEN Splice(activeTerminals, index)
                             ELSE activeTerminals

\* closeTerminal(sessionId) of the app when terminal.dispose() throws: the
\* exception leaves the method before the list is touched.
closeTerminalThrows(sessionId) ==
    /\ TM_closeTerminalThrows(sessionId)
    /\ UNCHANGED activeTerminals

\* The session ids of the entries of the active-terminal list.
ListedIds ==
    {activeTerminals[i].sessionId : i \in 1..Len(activeTerminals)}

\* The user presses the close button of an entry of the list.
UserClose(sessionId) ==
    /\ Ready
    /\ sessionId \in ListedIds
    /\ closeTerminal(sessionId)
    /\ task' = Task("closeTerminal", sessionId,
                    sessionId \in DOMAIN terminals, FALSE)
    /\ UNCHANGED <<executionMode, view, sink, posts, clock, pc>>

UserCloseThrows(sessionId) ==
    /\ Ready
    /\ sessionId \in ListedIds
    /\ closeTerminalThrows(sessionId)
    /\ task' = Task("closeTerminal", sessionId, TRUE, TRUE)
    /\ UNCHANGED <<executionMode, view, sink, posts, clock, pc>>

\* --------------------------------------------------------- socket events

\* socket.on('terminal_output')
TerminalOutput(sessionId, output) ==
    /\ Ready
    /\ TM_write(sessionId, output)
    /\ task' = Task("terminal_output", sessionId,
                    sessionId \in DOMAIN terminals, FALSE)
    /\ UNCHANGED <<activeTerminals, executionMode, view, sink, posts, clock,
                   pc>>

\* terminal_output while the emulators hold fewer than MaxWritten chunks.
OnTerminalOutput(sessionId, output) ==
    /\ sessionId \in DOMAIN terminals => WrittenTotal(emulators) < MaxWritten
    /\ TerminalOutput(sessionId, output)

\* terminal_output while the emulator of the session holds fewer than
\* MaxBurst chunks.
OnTerminalOutputBurst(sessionId, output) ==
    /\ sessionId \in DOMAIN terminals =>
          Len(emulators[terminals[sessionId].terminal].written) < MaxBurst
    /\ TerminalOutput(sessionId, output)

\* socket.on('terminal_closed')
OnTerminalClosed(sessionId) ==
    /\ Ready
    /\ closeTerminal(sessionId)
    /\ task' = Task("terminal_closed", sessionId,
                    sessionId \in DOMAIN terminals, FALSE)
    /\ UNCHANGED <<executionMode, view, sink, posts, clock, pc>>

OnTerminalClosedThrows(sessionId) ==
    /\ Ready
    /\ closeTerminalThrows(sessionId)
    /\ task' = Task("terminal_closed", sessionId, TRUE, TRUE)
    /\ UNCHANGED <<executionMode, view, sink, posts, clock, pc>>

\* ------------------------------------------------- emulator and observer

\* terminal.onData(data => socket.emit('terminal_input', ...))
OnData(e, data) ==
    /\ Ready
    /\ emulators[e].opened /\ ~emulators[e].disposed
    /\ outbox' = Append(outbox,
          [event |-> "terminal_input",
           session_id |-> emulators[e].sessionId, input |-> data])
    /\ task' = Task("onData", emulators[e].sessionId,
                    emulators[e].sessionId \in DOMAIN terminals, FALSE)
    /\ UNCHANGED <<terminals, emulators, observers, activeTerminals,
                   executionMode, view, sink, posts, clock, pc>>

\* new ResizeObserver(() => { fit(); socket.emit('terminal_resize', ...) })
OnResize(o, dims) ==
    /\ Ready
    /\ observers[o].connected
    /\ outbox' = Append(outbox,
          [event |-> "terminal_resize",
           session_id |-> observers[o].sessionId,
           rows |-> dims.rows, cols |-> dims.cols])
    /\ task' = Task("onResize", observers[o].sessionId,
                    observers[o].sessionId \in DOMAIN terminals, FALSE)
    /\ UNCHANGED <<terminals, emulators, observers, activeTerminals,
                   executionMode, view, sink, posts, clock, pc>>

\* ------------------------------------------------------------ environment

\* The socket writes the packets of the finished task to its transport.
Transmit ==
    /\ pc.at = "idle"
    /\ outbox # << >>
    /\ outbox' = << >>
    /\ UNCHANGED <<terminals, emulators, observers, activeTerminals,
                   executionMode, view, sink, posts, clock, pc, task>>

\* Date.now() never runs backwards.
Now == {t \in Timestamps : t >= clock}

Next ==
    \/ \E t \in ToolNames, now \in Now : executeTool(t, now)
    \/ \E t \in ToolNames, now \in Now : installTool(t, now)
    \/ \E t \in ToolNames, now \in Now : removeTool(t, now)
    \/ CreateTerminalConstruct
    \/ CreateTerminalMount
    \/ CreateTerminalRegister
    \/ CreateTerminalAnnounce
    \/ Resume
    \/ \E s \in ListedIds : UserClose(s)
    \/ \E s \in InboundIds, b \in Outputs : OnTerminalOutput(s, b)
    \/ \E s \in InboundIds : OnTerminalClosed(s)
    \/ \E e \in 1..Len(emulators), d \in Keys : OnData(e, d)
    \/ \E o \in 1..Len(observers), d \in Dims : OnResize(o, d)
    \/ Transmit

Spec == Init /\ [][Next]_vars

\* The same program with an emulator whose disposal may throw.
NextFault ==
    \/ Next
    \/ \E s \in ListedIds : UserCloseThrows(s)
    \/ \E s \in InboundIds : OnTerminalClosedThrows(s)

SpecFault == Init /\ [][NextFault]_vars

\* ------------------------------------------------------------ fetchData

\* The collection a fetchData call awaits after `stage`, "" after the last.
NextStage(stage) ==
    CASE stage = "tools" -> "categories"
      [] stage = "categories" -> "sessions"
      [] stage = "sessions" -> ""

\* What a fetch of one endpoint can come to: a 2xx response whose body parses
\* to `body`, a 2xx response whose json() rejects, a non-2xx response, or a
\* rejected fetch.
Outcomes(stage) ==
    {[kind |-> "json", body |-> b] :
        b \in CASE stage = "tools" -> ToolLists
                [] stage = "categories" -> CategoryLists
                [] stage = "sessions" -> SessionLists}
    \cup {[kind |-> k, body |-> << >>] : k \in {"badjson", "status", "reject"}}

\* A failed fetch leaves the collection as it was.
SetCollectionKeepsStale(previous, outcome) ==
    IF outcome.kind = "json" THEN outcome.body ELSE previous

\* The value one inner try/catch of fetchData assigns to its collection,
\* which held `previous`.
SetCollection(previous, outcome) ==
    IF outcome.kind = "json" THEN outcome.body ELSE << >>

\* fetchData() is called: by created(), by the interval, by installTool and
\* removeTool.  It runs to its first await.
CallFetchData == Append(polls, [stage |-> "tools", failed |-> 0])

\* created() and setInterval(this.fetchData, 5000)
StartPoll ==
    /\ Ready
    /\ Len(polls) < MaxPolls
    /\ polls' = CallFetchData
    /\ task' = Task("interval", "", FALSE, FALSE)
    /\ UNCHANGED <<terminals, emulators, observers, activeTerminals,
                   executionMode, outbox, posts, clock, pc, tools,
                   categories, sessions, loading, sink>>

\* The fetch that call i of fetchData awaits settles with `outcome`: the call
\* assigns its collection and goes on to the next fetch, or finishes.
PollAnswer(i, outcome) ==
    /\ Ready
    /\ i \in 1..Len(polls)
    /\ outcome \in Outcomes(polls[i].stage)
    /\ tools' = IF polls[i].stage = "tools"
                THEN SetCollection(tools, outcome) ELSE tools
    /\ categories' = IF polls[i].stage = "categories"
                     THEN SetCollection(categories, outcome) ELSE categories
    /\ sessions' = IF polls[i].stage = "sessions"
                   THEN SetCollection(sessions, outcome) ELSE sessions
    /\ LET failed == polls[i].failed
                       + (IF outcome.kind = "json" THEN 0 ELSE 1) IN
       IF NextStage(polls[i].stage) = ""
       THEN /\ polls' = Splice(polls, i)
            /\ loading' = FALSE
       ELSE /\ polls' = [polls EXCEPT ![i] =
                            [stage |-> NextStage(polls[i].stage),
                             failed |-> failed]]
            /\ UNCHANGED loading
    /\ task' = Task("fetchData", "", FALSE, FALSE)
    /\ UNCHANGED <<terminals, emulators, observers, activeTerminals,
                   executionMode, outbox, posts, clock, pc, sink>>

NextPoll ==
    \/ StartPoll
    \/ \E i \in 1..Len(polls) :
          \E outcome \in Outcomes(polls[i].stage) : PollAnswer(i, outcome)
    \/ \E s \in InboundIds : OnTerminalClosed(s)

SpecPoll == Init /\ [][NextPoll]_vars

\* ------------------------------------------------- POST /api/tool/{name}

\* How the awaited POST of installTool and removeTool can settle.
PostOutcomes == {"ok", "status", "reject"}

\* The deferred callback of installTool or removeTool after its awaited POST
\* settled: a rejection and a non-2xx answer throw inside the callback, whose
\* promise nobody awaits; a 2xx answer calls fetchData.
PostResponse(i, outcome) ==
    /\ Ready
    /\ i \in 1..Len(posts)
    /\ outcome \in PostOutcomes
    /\ outcome = "ok" => Len(polls) < MaxPolls
    /\ posts' = Splice(posts, i)
    /\ polls' = IF outcome = "ok" THEN CallFetchData ELSE polls
    /\ task' = Task(IF posts[i].action = "install"
                    THEN "installTool" ELSE "removeTool",
                    "", FALSE, outcome # "ok")
    /\ UNCHANGED <<terminals, emulators, observers, activeTerminals,
                   executionMode, outbox, clock, pc, tools, categories,
                   sessions, loading, sink>>

NextRequest ==
    \/ \E t \in ToolNames, now \in Now : executeTool(t, now)
    \/ \E t \in ToolNames, now \in Now : installTool(t, now)
    \/ \E t \in ToolNames, now \in Now : removeTool(t, now)
    \/ CreateTerminalConstruct
    \/ CreateTerminalMount
    \/ CreateTerminalRegister
    \/ CreateTerminalAnnounce
    \/ Resume
    \/ Transmit
    \/ \E i \in 1..Len(posts), outcome \in PostOutcomes :
          PostResponse(i, outcome)
    \/ \E i \in 1..Len(polls) :
          \E outcome \in Outcomes(polls[i].stage) : PollAnswer(i, outcome)

SpecRequest == Init /\ [][NextRequest]_vars

\* ------------------------------------------------------------ notifications

\* setTimeout with no delay.
SetTimeoutNoDelay(id) == [id |-> id, set |-> time, delay |-> 0]

\* line 324: setTimeout(() => {... n.id !== id ...}, 3000), called at `time`
SetTimeout(id) == [id |-> id, set |-> time, delay |-> Ttl]

\* showNotification that takes the length of the queue as the id.
showNotificationCountsQueue(message, type) ==
    /\ notifications' = Append(notifications,
          [id |-> Len(notifications), message |-> message, type |-> type])
    /\ notificationId' = notificationId
    /\ timers' = Append(timers, SetTimeout(Len(notifications)))

\* showNotification(message, type)
showNotification(message, type) ==
    /\ notifications' = Append(notifications,
          [id |-> notificationId, message |-> message, type |-> type])
    /\ notificationId' = notificationId + 1
    /\ timers' = Append(timers, SetTimeout(notificationId))

\* The terminal_error handler closing the session it names.
OnTerminalErrorCloses(sessionId, error) ==
    /\ Ready
    /\ notificationId < MaxNotifications
    /\ showNotification(error, "error")
    /\ closeTerminal(sessionId)
    /\ task' = Task("terminal_error", sessionId,
                    sessionId \in DOMAIN terminals, FALSE)
    /\ UNCHANGED <<executionMode, posts, clock, pc, view, time>>

\* socket.on('terminal_error')
OnTerminalError(sessionId, error) ==
    /\ Ready
    /\ notificationId < MaxNotifications
    /\ showNotification(error, "error")
    /\ task' = Task("terminal_error", sessionId,
                    sessionId \in DOMAIN terminals, FALSE)
    /\ UNCHANGED <<terminals, emulators, observers, activeTerminals,
                   executionMode, outbox, posts, clock, pc, view, time>>

\* The callback of timer k runs: the timer's delay has passed.
Expire(k) ==
    /\ Ready
    /\ k \in 1..Len(timers)
    /\ time >= timers[k].set + timers[k].delay
    /\ LET id == timers[k].id
           Keep(n) == n.id # id
       IN  notifications' = SelectSeq(notifications, Keep)
    /\ timers' = Splice(timers, k)
    /\ task' = Task("timeout", "", FALSE, FALSE)
    /\ UNCHANGED <<terminals, emulators, observers, activeTerminals,
                   executionMode, outbox, posts, clock, pc, view,
                   notificationId, time>>

\* Time passes to the instant t.  A timer's callback runs at the instant the
\* timer is due: the loop is idle then, every handler being short.
Tick(t) ==
    /\ Ready
    /\ t \in Instants
    /\ t > time
    /\ \A k \in 1..Len(timers) : t <= timers[k].set + timers[k].delay
    /\ time' = t
    /\ UNCHANGED <<terminals, emulators, observers, activeTerminals,
                   executionMode, outbox, posts, clock, pc, task, view,
                   notifications, notificationId, timers>>

NextNotify ==
    \/ \E t \in ToolNames, now \in Now : executeTool(t, now)
    \/ CreateTerminalConstruct
    \/ CreateTerminalMount
    \/ CreateTerminalRegister
    \/ CreateTerminalAnnounce
    \/ Resume
    \/ Transmit
    \/ \E s \in InboundIds, e \in Errors : OnTerminalError(s, e)
    \/ \E k \in 1..Len(timers) : Expire(k)
    \/ \E t \in Instants : Tick(t)

SpecNotify == Init /\ [][NextNotify]_vars

\* ---------------------------------------------- sessions under traffic

NextOrder ==
    \/ \E t \in ToolNames, now \in Now : executeTool(t, now)
    \/ CreateTerminalConstruct
    \/ CreateTerminalMount
    \/ CreateTerminalRegister
    \/ CreateTerminalAnnounce
    \/ Resume
    \/ Transmit
    \/ \E e \in 1..Len(emulators), d \in Keys : OnData(e, d)
    \/ \E s \in InboundIds, o \in Outputs : OnTerminalOutputBurst(s, o)
    \/ \E s \in InboundIds : OnTerminalClosed(s)

SpecOrder == Init /\ [][NextOrder]_vars

\* ------------------------------------------------------------ properties

Event(name, sessionId) == [event |-> name, session_id |-> sessionId]

\* The entry of the registry for sessionId, live: its emulator is not
\* disposed and its observer is connected.
LiveEmulatorsOf(sessionId) ==
    {e \in 1..Len(emulators) :
        emulators[e].sessionId = sessionId /\ ~emulators[e].disposed}

ConnectedObserversOf(sessionId) ==
    {o \in 1..Len(observers) :
        observers[o].sessionId = sessionId /\ observers[o].connected}

\* A step in which the app's closeTerminal runs for sessionId.
CloseStep(sessionId) == UserClose(sessionId) \/ OnTerminalClosed(sessionId)

\* C1: whenever a terminal_create event for a session id has been emitted,
\* the registry already holds an entry for that id (the entry is stored
\* before the event is sent), so output that follows the event finds it.
WriteBeforeAnnounce ==
    \A i \in 1..Len(outbox) :
        outbox[i].event = "terminal_create" =>
            outbox[i].session_id \in DOMAIN terminals

\* C1 witness: createTerminal has just emitted terminal_create for a session
\* the registry holds.
WriteBeforeAnnounceWitness ==
    /\ pc.at = "resume"
    /\ outbox = <<Event("terminal_create", pc.sessionId)>>
    /\ pc.sessionId \in DOMAIN terminals
    /\ terminals[pc.sessionId].terminal = pc.terminal

\* C2: for a session id absent from the registry, write (reached through
\* terminal_output) and closeTerminal (reached through the close button and
\* terminal_closed) raise no error, leave the registry, the emulators and the
\* observers unchanged and emit nothing.
AbsentIsNoOp ==
    [][\A s \in InboundIds :
          (s \notin DOMAIN terminals
             /\ (CloseStep(s) \/ \E b \in Outputs : OnTerminalOutput(s, b)))
          => /\ UNCHANGED <<terminals, emulators, observers, outbox>>
             /\ ~task'.threw]_vars

\* C2 witness: terminal_closed for an id the registry never held has run
\* while another session is registered.
AbsentIsNoOpWitness ==
    /\ task.op = "terminal_closed"
    /\ task.sessionId = StrayId
    /\ ~task.terminalData
    /\ DOMAIN terminals # {}
    /\ outbox = << >>

DestroyIsBestEffort ==
    [][\A s \in InboundIds :
          (UserCloseThrows(s) \/ OnTerminalClosedThrows(s)) =>
             /\ s \notin DOMAIN terminals'
             /\ ~observers'[terminals[s].resizeObserver].connected]_vars

\* C5 (as claimed): the handler of terminal_closed emits no outbound event.
ClosedIsNotAcknowledged ==
    [][\A s \in InboundIds : OnTerminalClosed(s) => outbox' = outbox]_vars

\* C6 (as claimed): after the handler of terminal_closed ran for an id, the
\* registry has no entry for the id, the active-terminal list has no entry
\* with the id, and the entries of all other ids are as they were.
ClosedRemovesSession ==
    [][\A s \in InboundIds :
          OnTerminalClosed(s) =>
             /\ s \notin DOMAIN terminals'
             /\ \A i \in 1..Len(activeTerminals') :
                   activeTerminals'[i].sessionId # s
             /\ DOMAIN terminals' = DOMAIN terminals \ {s}
             /\ \A r \in DOMAIN terminals' : terminals'[r] = terminals[r]
             /\ activeTerminals' =
                   SelectSeq(activeTerminals, LAMBDA t : t.sessionId # s)]_vars

\* C7: terminal_output {session_id: s, output: b} appends exactly b to the
\* emulator registered under s and leaves every other emulator as it was;
\* when s is not registered no emulator and nothing else changes.
OutputRouting ==
    [][\A s \in InboundIds, b \in Outputs :
          OnTerminalOutput(s, b) =>
             /\ Len(emulators') = Len(emulators)
             /\ \A e \in 1..Len(emulators) :
                   emulators'[e] =
                      IF s \in DOMAIN terminals /\ e = terminals[s].terminal
                      THEN [emulators[e] EXCEPT !.written = Append(@, b)]
                      ELSE emulators[e]
             /\ UNCHANGED <<terminals, observers, activeTerminals, outbox>>]_vars

\* C7 witness: terminal_output for a registered session has run; its
\* emulator holds the bytes and the emulator of another registered session
\* holds none.
OutputRoutingWitness ==
    /\ task.op = "terminal_output"
    /\ task.terminalData
    /\ task.sessionId \in DOMAIN terminals
    /\ emulators[terminals[task.sessionId].terminal].written
          = <<"scan started\n">>
    /\ \E r \in DOMAIN terminals :
          /\ r # task.sessionId
          /\ emulators[terminals[r].terminal].written = << >>

\* C8 (as claimed): no two calls of executeTool, installTool and removeTool
\* generate the same session id.  Every call constructs one emulator, which
\* carries the id the call generated.
SessionIdsUnique ==
    \A i, j \in 1..Len(emulators) :
        i # j => emulators[i].sessionId # emulators[j].sessionId

\* C9 (as claimed): every session id in the registry has exactly one live
\* emulator and exactly one connected observer among all ever created for it.
OneEmulatorOneObserver ==
    \A s \in DOMAIN terminals :
        /\ Cardinality(LiveEmulatorsOf(s)) = 1
        /\ Cardinality(ConnectedObserversOf(s)) = 1

\* C10 (as claimed): no terminal_input and no terminal_resize is emitted for
\* a session id that is absent from the registry.
NoSubscriptionOutlivesSession ==
    \A i \in 1..Len(outbox) :
        outbox[i].event \in {"terminal_input", "terminal_resize"} =>
            outbox[i].session_id \in DOMAIN terminals

\* C11 (as claimed): when createTerminal fails because the container element
\* does not exist, the emulator that call constructed does not remain live,
\* no observer is connected, the registry is unchanged and no terminal_create
\* is emitted.
ContainerNotFoundReleases ==
    [][(pc.at = "mount" /\ pc'.at = "idle") =>
          /\ emulators'[pc.terminal].disposed
          /\ observers' = observers
          /\ terminals' = terminals
          /\ outbox' = outbox]_vars


\* C13: an execute_tool event is emitted only after its session was appended
\* to the active-terminal list and registered: it directly follows that
\* session's terminal_create, whose id is in the registry and in the list;
\* and a callback whose createTerminal threw emits no execute_tool.
ExecuteAfterRegistration ==
    /\ \A i \in 1..Len(outbox) :
          outbox[i].event = "execute_tool" =>
              /\ i > 1
              /\ outbox[i - 1].event = "terminal_create"
              /\ outbox[i - 1].session_id \in DOMAIN terminals
              /\ outbox[i - 1].session_id \in ListedIds
              /\ outbox[i - 1].session_id = task.sessionId
    /\ task.threw =>
          \A i \in 1..Len(outbox) : outbox[i].event # "execute_tool"

\* C13 witness: the deferred callback of executeTool has emitted execute_tool
\* right after the terminal_create of the session it listed and registered.
ExecuteAfterRegistrationWitness ==
    /\ task.op = "executeTool"
    /\ pc.at = "idle"
    /\ outbox = <<Event("terminal_create", task.sessionId),
                  [event |-> "execute_tool", tool |-> "nmap",
                   mode |-> "guided"]>>
    /\ task.sessionId \in DOMAIN terminals
    /\ task.sessionId \in ListedIds


\* C14: in every poll cycle each collection is set from its own fetch alone:
\* to the fetched list if that fetch succeeded and to the empty list if it
\* rejected or was answered non-2xx, whatever it held before; the step leaves
\* the other two collections alone, and a failure does not end the cycle.
IndependentCollections ==
    [][\A i \in 1..Len(polls) : \A outcome \in Outcomes(polls[i].stage) :
          PollAnswer(i, outcome) =>
              LET stage == polls[i].stage
                  value == IF outcome.kind = "json"
                           THEN outcome.body ELSE << >>
              IN  /\ outcome.kind \in {"json", "status", "reject"} =>
                        /\ stage = "tools" => tools' = value
                        /\ stage = "categories" => categories' = value
                        /\ stage = "sessions" => sessions' = value
                  /\ stage # "tools" => tools' = tools
                  /\ stage # "categories" => categories' = categories
                  /\ stage # "sessions" => sessions' = sessions
                  /\ stage # "sessions" =>
                        /\ Len(polls') = Len(polls)
                        /\ polls'[i].stage = NextStage(stage)]_vars

\* C14 witness: a cycle has finished in which the fetch of the tools failed
\* and the other two collections took their fetched lists.
IndependentCollectionsWitness ==
    /\ task.op = "fetchData"
    /\ polls = << >>
    /\ ~loading
    /\ tools = << >>
    /\ categories = <<"scanner">>
    /\ sessions = <<[id |-> StrayId, active |-> TRUE]>>

\* C15 (as claimed): a poll cycle in which exactly one fetch failed has
\* raised a notification of kind warning, which is in the queue when the
\* cycle ends.  (No handler of SpecPoll removes a notification, so the one
\* warning the claim counts would still be there.)
OneWarningPerFailedCycle ==
    [][\A i \in 1..Len(polls) : \A outcome \in Outcomes(polls[i].stage) :
          (/\ PollAnswer(i, outcome)
           /\ polls[i].stage = "sessions"
           /\ polls[i].failed + (IF outcome.kind = "json" THEN 0 ELSE 1) = 1)
          => \E n \in 1..Len(notifications') :
                notifications'[n].type = "warning"]_vars

\* C20 (as claimed): once terminal_closed for a session id was handled, and
\* until another handler runs, the sessions snapshot has no active entry of
\* that id, and neither the registry nor the list has an entry of it.
ClosedWinsOverSnapshot ==
    task.op = "terminal_closed" =>
        /\ \A n \in 1..Len(sessions) :
              ~(sessions[n].id = task.sessionId /\ sessions[n].active)
        /\ task.sessionId \notin DOMAIN terminals
        /\ task.sessionId \notin ListedIds


\* C12 (as claimed): every failure of executeTool, installTool or removeTool
\* (container not found in createTerminal, POST rejected or answered
\* non-2xx) raises one notification of kind error in the step where it
\* happens, and the task does not end with an uncaught failure.
FailuresBecomeNotifications ==
    [][(\/ pc.at = "mount" /\ pc'.at = "idle"
        \/ \E i \in 1..Len(posts) : \E outcome \in {"status", "reject"} :
              PostResponse(i, outcome))
       => /\ ~task'.threw
          /\ Len(notifications') = Len(notifications) + 1
          /\ notifications'[Len(notifications')].type = "error"]_vars


\* C16: a terminal_error event appends exactly one notification of kind
\* error with the message of the event, leaves the registry, the emulators,
\* the observers and the active-terminal list as they were, and emits
\* nothing.
ErrorKeepsSessionOpen ==
    [][\A s \in InboundIds : \A e \in Errors :
          OnTerminalError(s, e) =>
              /\ Len(notifications') = Len(notifications) + 1
              /\ SubSeq(notifications', 1, Len(notifications))
                    = notifications
              /\ notifications'[Len(notifications')].type = "error"
              /\ notifications'[Len(notifications')].message = e
              /\ UNCHANGED <<terminals, emulators, observers,
                             activeTerminals, outbox>>]_vars

\* C16 witness: a terminal_error for a registered, listed session has been
\* handled; its notification is the last of the queue and the session's
\* emulator is live.
ErrorKeepsSessionOpenWitness ==
    /\ task.op = "terminal_error"
    /\ task.sessionId \in DOMAIN terminals
    /\ task.sessionId \in ListedIds
    /\ ~emulators[terminals[task.sessionId].terminal].disposed
    /\ notifications # << >>
    /\ notifications[Len(notifications)].message = "tool not found"
    /\ notifications[Len(notifications)].type = "error"

\* C17: the ids of the queue are strictly increasing in raise order, hence
\* pairwise distinct, and below the counter; and the run of a removal timer
\* takes exactly the entry with the timer's id out of the queue.
IdsNeverRepeat ==
    /\ [](/\ \A m, n \in 1..Len(notifications) :
                m < n => notifications[m].id < notifications[n].id
          /\ \A n \in 1..Len(notifications) :
                notifications[n].id < notificationId)
    /\ [][\A k \in 1..Len(timers) :
            Expire(k) =>
               \E m \in 1..Len(notifications) :
                  /\ notifications[m].id = timers[k].id
                  /\ notifications' = Splice(notifications, m)]_vars

\* C17 witness: the timer of the first notification has run and has left the
\* second, raised later with the next id, in the queue.
IdsNeverRepeatWitness ==
    /\ task.op = "timeout"
    /\ notificationId = 2
    /\ Len(notifications) = 1
    /\ notifications[1].id = 1

IsPrefix(a, b) == Len(a) <= Len(b) /\ SubSeq(b, 1, Len(a)) = a

\* C19: within a session the order is kept.  A keystroke is emitted in the
\* step that produces it, as one terminal_input event of the emulator's
\* session id behind everything emitted before, and the packets of a task
\* leave in that order; an output that arrives for a registered id is
\* written behind everything its emulator was given before; and no step,
\* of this or another session, reorders or drops what a live emulator was
\* given.
PerSessionOrder ==
    [][/\ \A e \in 1..Len(emulators) : \A d \in Keys :
             OnData(e, d) =>
                outbox' = Append(outbox,
                             [event |-> "terminal_input",
                              session_id |-> emulators[e].sessionId,
                              input |-> d])
       /\ \A s \in DOMAIN terminals : \A o \in Outputs :
             TerminalOutput(s, o) =>
                emulators'[terminals[s].terminal].written
                   = Append(emulators[terminals[s].terminal].written, o)
       /\ \A e \in 1..Len(emulators) :
             ~emulators'[e].disposed =>
                IsPrefix(emulators[e].written, emulators'[e].written)
       /\ IsPrefix(outbox, outbox') \/ outbox' = << >>]_vars

\* C19 witness: two registered sessions took interleaved outputs; the one
\* holds its two chunks in arrival order, the other its one chunk.
PerSessionOrderWitness ==
    /\ task.op = "terminal_output"
    /\ \E r, s \in DOMAIN terminals :
          /\ r # s
          /\ emulators[terminals[r].terminal].written
                = <<"done\n", "scan started\n">>
          /\ emulators[terminals[s].terminal].written = <<"done\n">>


\* C21: every session id of the registry has an entry in the active-terminal
\* list, in every state the starters (with their deferred registration), the
\* close button and terminal_closed events can reach.
RegistryWithinList ==
    \A s \in DOMAIN terminals : s \in ListedIds

\* C21 witness: one session was closed while another, registered and listed,
\* stays.
RegistryWithinListWitness ==
    /\ task.op \in {"closeTerminal", "terminal_closed"}
    /\ task.terminalData
    /\ task.sessionId \notin DOMAIN terminals
    /\ \E s \in DOMAIN terminals : s \in ListedIds /\ s # task.sessionId


\* The place of a collection in the order fetchData fetches them.
StageRank(stage) ==
    CASE stage = "tools" -> 1
      [] stage = "categories" -> 2
      [] stage = "sessions" -> 3

\* C22 (as claimed): the calls of fetchData in flight are listed in the
\* order they started.  When the answer for a collection reaches a call
\* while a call that started later is already past that collection, and so
\* has set it, the answer does not change the collection.
LaterPollWins ==
    [][\A i \in 1..Len(polls) : \A outcome \in Outcomes(polls[i].stage) :
          (/\ PollAnswer(i, outcome)
           /\ \E j \in (i + 1)..Len(polls) :
                 StageRank(polls[j].stage) > StageRank(polls[i].stage))
          => /\ polls[i].stage = "tools" => tools' = tools
             /\ polls[i].stage = "categories" => categories' = categories
             /\ polls[i].stage = "sessions" => sessions' = sessions]_vars

====
